---- MODULE Spec2Model ----
(***************************************************************************)
(* State-pattern vending machine of                                        *)
(* src/behavioural-patterns/state-pattern/index.ts: the context class      *)
(* VendingMachine, its four MachineState classes and the setTimeout        *)
(* callbacks that HasMoneyState.dispenseItem leaves in the event loop.     *)
(*                                                                         *)
(* Amounts are held in tenths of a dollar (1.5 is 15).  A field that was   *)
(* never assigned holds JavaScript's undefined: the string "undefined"     *)
(* for selectedItem, the empty tuple for insertedAmount (a number n is     *)
(* the tuple <<n>>).                                                       *)
(*                                                                         *)
(* The naive switch-based machine of the same file runs beside it in       *)
(* PairSpec.  The other programs of the repository have a specification    *)
(* each, with the variables of the rest left alone: SmartButton and its    *)
(* commands (ButtonSpec) and the request handlers (ChainSpec) of           *)
(* src/behavioural-patterns/command-pattern/index.ts, the glyph cache of   *)
(* src/structural-patterns/flyweight-pattern/index.ts (FlyweightSpec), the *)
(* image proxy of src/structural-patterns/proxy-pattern/index.ts           *)
(* (ProxySpec) and the fitness tracker of src/unnamed/part_001             *)
(* (ObserverSpec).                                                         *)
(***************************************************************************)
EXTENDS Integers, Sequences, FiniteSets, TLC

\* ---------------------------------------------------------------- bounds
\* number of setTimeout calls explored in one run
MaxSchedules == 3
\* consecutive identical calls that are told apart
MaxRepeat == 2
\* number of SmartButton.press() calls that execute a command in one run
MaxPresses == 3
\* number of getFlyweight calls in one run
MaxRequests == 3
\* number of display() calls on one ImageProxy in one run
MaxDisplays == 2
\* number of registrations FitnessData.observers holds at one time
MaxObservers == 3

\* ------------------------------------------------------------ input sets
ItemCodes == {"A1", "B2"}
Amounts == {0, 10, 15, 20}

\* ------------------------------------------------------------- constants
DispenseDelay == 1000
\* Thermostat.currentTemperature of a new Thermostat
DefaultTemperature == 20
\* GoalNotifier.stepGoal
StepGoal == 10000

undefined == "undefined"
undefinedAmount == <<>>
Num(n) == <<n>>
\* what a number field that was never assigned, or a NaN, compares like
NaN == <<>>

MachineStates == {"IdleState", "ItemSelectedState", "HasMoneyState", "DispensingState"}

VARIABLES
    currentState,    \* VendingMachine.currentState (class of the state object)
    selectedItem,    \* VendingMachine.selectedItem
    insertedAmount,  \* VendingMachine.insertedAmount
    timers,          \* pending setTimeout callbacks, oldest first
    log,             \* console.log lines written by the last call
    lastEvent,       \* the call that was run last: kind, item code, amount
    nSchedule,       \* number of setTimeout calls so far
    nDispensing,     \* number of transitions into DispensingState so far
    hp,              \* progress along the happy path of the usage example
    sc,              \* progress along the example scenario (rejected coin first)
    repeat,          \* how many times in a row the last call was made
    rejects,         \* the last two refused calls: state, kind, console lines
    cur,             \* which VendingMachine object the three fields above belong to
    other,           \* the fields of the second VendingMachine object
    txn,             \* calls carried out since the machine was last idle
    mn               \* calls of VendingMachineApp.main made so far (-1: another run)

vmVars == <<currentState, selectedItem, insertedAmount, timers, log, lastEvent,
            nSchedule, nDispensing, hp, sc, repeat, rejects, cur, other, txn, mn>>

\* the switch-based VendingMachine of the same file, run side by side
VARIABLES
    nvState,         \* naive VendingMachine.currentState (a member of enum State)
    nvItem,          \* naive VendingMachine.selectedItem
    nvAmount,        \* naive VendingMachine.insertedAmount, in tenths
    nvTimers,        \* pending setTimeout callbacks of the naive machine
    nvLog            \* console.log lines written by its last call

nvVars == <<nvState, nvItem, nvAmount, nvTimers, nvLog>>

\* the smart-home remote of src/behavioural-patterns/command-pattern/index.ts
VARIABLES
    currentCommand,      \* SmartButton.currentCommand: a command object or null
    history,             \* SmartButton.history, oldest first; each entry carries
                         \* the number of the execution that pushed it
    currentTemperature,  \* Thermostat.currentTemperature
    previousTemperature, \* SetTemperatureCommand.previousTemperature, per object
    sbLog,               \* console.log lines written by the last call
    sbLast,              \* the last call on the button and the execution it undid
    nExec,               \* number of executions so far
    undone,              \* the executions that have been undone
    before,              \* the temperature read before each execution
    onlyTemperature,     \* every execution so far was a SetTemperatureCommand
    phase                \* "press", then "undo" after the first undo, "mixed"
                         \* once a command is executed after an undo

sbVars == <<currentCommand, history, currentTemperature, previousTemperature,
            sbLog, sbLast, nExec, undone, before, onlyTemperature, phase>>

\* the glyph cache of src/structural-patterns/flyweight-pattern/index.ts
VARIABLES
    flyweights,      \* CharacterFlyweightFactory.flyweights: key -> flyweight object
    nObjects,        \* number of ConcreteCharacterFlyweight objects constructed
    fwLast,          \* the last getFlyweight call: its arguments, the object returned
    given            \* every call so far: intrinsic state asked for, object returned

fwVars == <<flyweights, nObjects, fwLast, given>>

\* the image gallery of src/structural-patterns/proxy-pattern/index.ts
VARIABLES
    proxies,         \* the ImageProxy objects constructed, by file name
    realImage,       \* ImageProxy.realImage of each: null or the image object
    loads,           \* calls of HighResolutionImage.loadImageFromDisk, per proxy
    displays,        \* calls of ImageProxy.display, per proxy
    pxLog,           \* console.log lines written by the last call
    pxLast           \* the last call: operation, proxy, value returned

pxVars == <<proxies, realImage, loads, displays, pxLog, pxLast>>

\* the request handlers of src/behavioural-patterns/command-pattern/index.ts
VARIABLES
    chLast,          \* the last request handed to both implementations
    chainLog,        \* console.log lines written by the chain for it
    naiveLog         \* console.log lines written by the naive RequestHandler

chVars == <<chLast, chainLog, naiveLog>>

\* the fitness tracker of src/unnamed/part_001
VARIABLES
    observers,       \* FitnessData.observers, in registration order
    steps,           \* FitnessData.steps
    activeMinutes,   \* FitnessData.activeMinutes
    calories,        \* FitnessData.calories
    goalReached,     \* GoalNotifier.goalReached
    obLog,           \* the update() calls made by the last call, in order: the
                     \* observer, the steps it read, whether it raised the alert
    obLast,          \* the last call: operation, observer argument, steps argument
    alerts,          \* goal alerts raised since the last GoalNotifier.reset()
    qualified        \* the notifier was updated with steps at the goal since then

obVars == <<observers, steps, activeMinutes, calories, goalReached, obLog, obLast,
            alerts, qualified>>

\* the variables of the other programs, which the vending machines never touch
patternVars == <<sbVars, fwVars, pxVars, chVars, obVars>>

vars == <<vmVars, nvVars, patternVars>>

machine == <<currentState, selectedItem, insertedAmount, timers>>

\* -------------------------------------------------- VendingMachine setters
setState(newState) == currentState' = newState

setSelectedItem(itemCode) == selectedItem' = itemCode

setInsertedAmount(amount) == insertedAmount' = Num(amount)

getSelectedItem == selectedItem

\* setTimeout(callback, 1000): one more pending callback, behind the others
setTimeout(delay) ==
    /\ timers' = Append(timers, [id |-> nSchedule + 1, delay |-> delay, ctx |-> cur])
    /\ nSchedule' = nSchedule + 1

noTimeout == UNCHANGED <<timers, nSchedule>>

\* reset() that forgets to clear insertedAmount
reset_keepAmount ==
    /\ selectedItem' = ""
    /\ UNCHANGED insertedAmount
    /\ currentState' = "IdleState"

\* reset() that forgets to clear selectedItem
reset_keepItem ==
    /\ UNCHANGED selectedItem
    /\ insertedAmount' = Num(0)
    /\ currentState' = "IdleState"

\* VendingMachine.reset(): clears the transaction, installs a new IdleState;
\* the handle of a pending timeout is not kept, so nothing is cleared there
reset ==
    /\ selectedItem' = ""
    /\ insertedAmount' = Num(0)
    /\ currentState' = "IdleState"

\* ------------------------------------------------------------- IdleState
IdleState_selectItem(itemCode) ==
    /\ log' = <<"Item selected: ", itemCode>>
    /\ setSelectedItem(itemCode)
    /\ setState("ItemSelectedState")
    /\ UNCHANGED insertedAmount
    /\ noTimeout

\* insertCoin that throws on the out-of-order call instead of logging:
\* the call does not return, so it has no next state
IdleState_insertCoin_throws(amount) ==
    /\ FALSE
    /\ log' = <<"Please select an item before inserting coins.">>
    /\ UNCHANGED <<currentState, selectedItem, insertedAmount>>
    /\ noTimeout

\* insertCoin that keeps the coin of the refused call
IdleState_insertCoin_keeps(amount) ==
    /\ log' = <<"Please select an item before inserting coins.">>
    /\ setInsertedAmount(amount)
    /\ UNCHANGED <<currentState, selectedItem>>
    /\ noTimeout

IdleState_insertCoin(amount) ==
    /\ log' = <<"Please select an item before inserting coins.">>
    /\ UNCHANGED <<currentState, selectedItem, insertedAmount>>
    /\ noTimeout

\* dispenseItem that writes the line of insertCoin
IdleState_dispenseItem_sameText ==
    /\ log' = <<"Please select an item before inserting coins.">>
    /\ UNCHANGED <<currentState, selectedItem, insertedAmount>>
    /\ noTimeout

IdleState_dispenseItem ==
    /\ log' = <<"No item selected. Nothing to dispense.">>
    /\ UNCHANGED <<currentState, selectedItem, insertedAmount>>
    /\ noTimeout

\* ----------------------------------------------------- ItemSelectedState
\* selectItem that refuses and yet takes the new code
ItemSelectedState_selectItem_overwrites(itemCode) ==
    /\ log' = <<"Item already selected: ", getSelectedItem>>
    /\ setSelectedItem(itemCode)
    /\ UNCHANGED <<currentState, insertedAmount>>
    /\ noTimeout

ItemSelectedState_selectItem(itemCode) ==
    /\ log' = <<"Item already selected: ", getSelectedItem>>
    /\ UNCHANGED <<currentState, selectedItem, insertedAmount>>
    /\ noTimeout

\* insertCoin that moves on without recording the amount
ItemSelectedState_insertCoin_noAmount(amount) ==
    /\ log' = <<"Inserted $", amount, " for item: ", getSelectedItem>>
    /\ setState("HasMoneyState")
    /\ UNCHANGED <<selectedItem, insertedAmount>>
    /\ noTimeout

ItemSelectedState_insertCoin(amount) ==
    /\ log' = <<"Inserted $", amount, " for item: ", getSelectedItem>>
    /\ setInsertedAmount(amount)
    /\ setState("HasMoneyState")
    /\ UNCHANGED selectedItem
    /\ noTimeout

\* dispenseItem that hands the item out before any coin was taken
ItemSelectedState_dispenseItem_free ==
    /\ log' = <<"Dispensing item: ", getSelectedItem>>
    /\ setState("DispensingState")
    /\ setTimeout(DispenseDelay)
    /\ UNCHANGED <<selectedItem, insertedAmount>>

ItemSelectedState_dispenseItem ==
    /\ log' = <<"Insert coin before dispensing.">>
    /\ UNCHANGED <<currentState, selectedItem, insertedAmount>>
    /\ noTimeout

\* --------------------------------------------------------- HasMoneyState
\* selectItem that refuses and yet swaps the item that was paid for
HasMoneyState_selectItem_swaps(itemCode) ==
    /\ log' = <<"Cannot change item after inserting money.">>
    /\ setSelectedItem(itemCode)
    /\ UNCHANGED <<currentState, insertedAmount>>
    /\ noTimeout

HasMoneyState_selectItem(itemCode) ==
    /\ log' = <<"Cannot change item after inserting money.">>
    /\ UNCHANGED <<currentState, selectedItem, insertedAmount>>
    /\ noTimeout

\* insertCoin that replaces the amount held by the later one
HasMoneyState_insertCoin_replaces(amount) ==
    /\ log' = <<"Money already inserted.">>
    /\ setInsertedAmount(amount)
    /\ UNCHANGED <<currentState, selectedItem>>
    /\ noTimeout

HasMoneyState_insertCoin(amount) ==
    /\ log' = <<"Money already inserted.">>
    /\ UNCHANGED <<currentState, selectedItem, insertedAmount>>
    /\ noTimeout

\* dispenseItem that enters DispensingState without arming the timer
HasMoneyState_dispenseItem_noTimer ==
    /\ log' = <<"Dispensing item: ", getSelectedItem>>
    /\ setState("DispensingState")
    /\ noTimeout
    /\ UNCHANGED <<selectedItem, insertedAmount>>

HasMoneyState_dispenseItem ==
    /\ log' = <<"Dispensing item: ", getSelectedItem>>
    /\ setState("DispensingState")
    /\ setTimeout(DispenseDelay)
    /\ UNCHANGED <<selectedItem, insertedAmount>>

\* ------------------------------------------------------- DispensingState
\* selectItem that remembers the code while the machine is busy
DispensingState_selectItem_buffers(itemCode) ==
    /\ log' = <<"Please wait, dispensing in progress.">>
    /\ setSelectedItem(itemCode)
    /\ UNCHANGED <<currentState, insertedAmount>>
    /\ noTimeout

DispensingState_selectItem(itemCode) ==
    /\ log' = <<"Please wait, dispensing in progress.">>
    /\ UNCHANGED <<currentState, selectedItem, insertedAmount>>
    /\ noTimeout

DispensingState_insertCoin(amount) ==
    /\ log' = <<"Please wait, dispensing in progress.">>
    /\ UNCHANGED <<currentState, selectedItem, insertedAmount>>
    /\ noTimeout

DispensingState_dispenseItem ==
    /\ log' = <<"Already dispensing. Please wait.">>
    /\ UNCHANGED <<currentState, selectedItem, insertedAmount>>
    /\ noTimeout

\* ------------------------------------- VendingMachine: dynamic dispatch
VendingMachine_selectItem(itemCode) ==
    CASE currentState = "IdleState" -> IdleState_selectItem(itemCode)
      [] currentState = "ItemSelectedState" -> ItemSelectedState_selectItem(itemCode)
      [] currentState = "HasMoneyState" -> HasMoneyState_selectItem(itemCode)
      [] currentState = "DispensingState" -> DispensingState_selectItem(itemCode)

VendingMachine_insertCoin(amount) ==
    CASE currentState = "IdleState" -> IdleState_insertCoin(amount)
      [] currentState = "ItemSelectedState" -> ItemSelectedState_insertCoin(amount)
      [] currentState = "HasMoneyState" -> HasMoneyState_insertCoin(amount)
      [] currentState = "DispensingState" -> DispensingState_insertCoin(amount)

VendingMachine_dispenseItem ==
    CASE currentState = "IdleState" -> IdleState_dispenseItem
      [] currentState = "ItemSelectedState" -> ItemSelectedState_dispenseItem
      [] currentState = "HasMoneyState" -> HasMoneyState_dispenseItem
      [] currentState = "DispensingState" -> DispensingState_dispenseItem

\* callback that logs and forgets to reset the machine
dispenseCallback_noReset ==
    /\ log' = <<"Item dispensed successfully.">>
    /\ UNCHANGED <<currentState, selectedItem, insertedAmount>>

\* the arrow function handed to setTimeout in HasMoneyState.dispenseItem
dispenseCallback ==
    /\ log' = <<"Item dispensed successfully.">>
    /\ reset

\* ------------------------------------------------------------- observers
\* a transition into DispensingState is counted where it happens
countDispensing ==
    nDispensing' = IF currentState' = "DispensingState" /\ currentState # "DispensingState"
                   THEN nDispensing + 1 ELSE nDispensing

\* position in the call sequence selectItem("A1"), insertCoin(1.5),
\* dispenseItem(), callback, started on an idle machine with no callback left
\* (pos: calls done, base: setTimeout calls made before the first of them)
hpNext(kind, itemCode, amount) ==
    IF kind = "SelectItem" /\ itemCode = "A1" /\ currentState = "IdleState" /\ timers = <<>>
    THEN [pos |-> 1, base |-> nSchedule]
    ELSE IF hp.pos = 1 /\ kind = "InsertPayment" /\ amount = 15 THEN [hp EXCEPT !.pos = 2]
    ELSE IF hp.pos = 2 /\ kind = "RequestDispense" THEN [hp EXCEPT !.pos = 3]
    ELSE IF hp.pos = 3 /\ kind = "DispenseComplete" THEN [hp EXCEPT !.pos = 4]
    ELSE [pos |-> 0, base |-> 0]

\* position in the call sequence insertCoin(1.0), selectItem("B2"),
\* insertCoin(2.0), dispenseItem(), callback, started like the one above
scNext(kind, itemCode, amount) ==
    IF kind = "InsertPayment" /\ amount = 10 /\ currentState = "IdleState" /\ timers = <<>>
    THEN [pos |-> 1, base |-> nSchedule]
    ELSE IF sc.pos = 1 /\ kind = "SelectItem" /\ itemCode = "B2" THEN [sc EXCEPT !.pos = 2]
    ELSE IF sc.pos = 2 /\ kind = "InsertPayment" /\ amount = 20 THEN [sc EXCEPT !.pos = 3]
    ELSE IF sc.pos = 3 /\ kind = "RequestDispense" THEN [sc EXCEPT !.pos = 4]
    ELSE IF sc.pos = 4 /\ kind = "DispenseComplete" THEN [sc EXCEPT !.pos = 5]
    ELSE [pos |-> 0, base |-> 0]

\* the calls of VendingMachineApp.main, in program order
Main ==
    << [kind |-> "InsertPayment", item |-> "", amount |-> 10],
       [kind |-> "SelectItem", item |-> "A1", amount |-> 0],
       [kind |-> "InsertPayment", item |-> "", amount |-> 15],
       [kind |-> "RequestDispense", item |-> "", amount |-> 0],
       [kind |-> "SelectItem", item |-> "B2", amount |-> 0],
       [kind |-> "InsertPayment", item |-> "", amount |-> 20],
       [kind |-> "RequestDispense", item |-> "", amount |-> 0] >>

\* main runs on a machine it has just constructed and returns before the
\* event loop runs a callback: any other call or callback leaves the run
mnNext(kind, itemCode, amount) ==
    IF /\ mn >= 0
       /\ mn < Len(Main)
       /\ Main[mn + 1] = [kind |-> kind, item |-> itemCode, amount |-> amount]
    THEN mn + 1
    ELSE -1

\* what the caller has been told was carried out since the machine left
\* IdleState: the item of the selectItem call, whether a coin was taken
txnNext(kind, itemCode) ==
    IF currentState' = "IdleState" THEN [item |-> "", paid |-> FALSE]
    ELSE IF kind = "SelectItem" /\ log'[1] = "Item selected: "
    THEN [item |-> itemCode, paid |-> FALSE]
    ELSE IF kind = "InsertPayment" /\ log'[1] = "Inserted $"
    THEN [txn EXCEPT !.paid = TRUE]
    ELSE txn

\* the console lines that tell the caller the call was carried out
AcceptLogs == {"Item selected: ", "Inserted $", "Dispensing item: ",
               "Item dispensed successfully."}

\* a call was refused when it wrote a line that is none of these
refused(lines) == lines # <<>> /\ lines[1] \notin AcceptLogs

repeatNext(kind, itemCode, amount) ==
    IF lastEvent = [kind |-> kind, item |-> itemCode, amount |-> amount]
    THEN IF repeat < MaxRepeat THEN repeat + 1 ELSE repeat
    ELSE 1

rejectsNext(kind) ==
    IF refused(log')
    THEN LET r == [state |-> currentState, kind |-> kind, msg |-> log']
         IN  IF rejects = <<>> THEN <<r>> ELSE <<rejects[Len(rejects)], r>>
    ELSE rejects

observe(kind, itemCode, amount) ==
    /\ lastEvent' = [kind |-> kind, item |-> itemCode, amount |-> amount]
    /\ countDispensing
    /\ hp' = hpNext(kind, itemCode, amount)
    /\ sc' = scNext(kind, itemCode, amount)
    /\ repeat' = repeatNext(kind, itemCode, amount)
    /\ rejects' = rejectsNext(kind)
    /\ txn' = txnNext(kind, itemCode)
    /\ mn' = mnNext(kind, itemCode, amount)
    /\ UNCHANGED <<cur, other>>
    /\ UNCHANGED nvVars
    /\ UNCHANGED patternVars

\* ------------------------------------------------------------ operations
\* new SmartButton(), new Thermostat() and the command objects of the client
ButtonInit ==
    /\ currentCommand = "null"
    /\ history = <<>>
    /\ currentTemperature = DefaultTemperature
    /\ previousTemperature = [c \in {"setTemp22", "setTemp25"} |-> <<>>]
    /\ sbLog = <<>>
    /\ sbLast = [op |-> "new", exec |-> 0]
    /\ nExec = 0
    /\ undone = {}
    /\ before = <<>>
    /\ onlyTemperature = TRUE
    /\ phase = "press"

\* new CharacterFlyweightFactory()
FlyweightInit ==
    /\ flyweights = <<>>
    /\ nObjects = 0
    /\ fwLast = [op |-> "new"]
    /\ given = {}

\* the gallery before its first new ImageProxy(fileName)
ProxyInit ==
    /\ proxies = {}
    /\ realImage = <<>>
    /\ loads = <<>>
    /\ displays = <<>>
    /\ pxLog = <<>>
    /\ pxLast = [op |-> "start", proxy |-> "", result |-> ""]

\* the chain as RequestHandlerApp.main links it, before the first request
ChainInit ==
    /\ chLast = [op |-> "new"]
    /\ chainLog = <<>>
    /\ naiveLog = <<>>

\* new FitnessData(), new GoalNotifier(): the three readings are not
\* initialised
ObserverInit ==
    /\ observers = <<>>
    /\ steps = NaN
    /\ activeMinutes = NaN
    /\ calories = NaN
    /\ goalReached = FALSE
    /\ obLog = <<>>
    /\ obLast = [op |-> "new", observer |-> "", steps |-> NaN]
    /\ alerts = 0
    /\ qualified = FALSE

Init ==
    /\ ObserverInit
    /\ ChainInit
    /\ ProxyInit
    /\ ButtonInit
    /\ FlyweightInit
    /\ currentState = "IdleState"
    /\ selectedItem = undefined
    /\ insertedAmount = undefinedAmount
    /\ timers = <<>>
    /\ log = <<>>
    /\ lastEvent = [kind |-> "new", item |-> "", amount |-> 0]
    /\ nSchedule = 0
    /\ nDispensing = 0
    /\ hp = [pos |-> 0, base |-> 0]
    /\ sc = [pos |-> 0, base |-> 0]
    /\ repeat = 0
    /\ rejects = <<>>
    /\ cur = 1
    /\ other = [currentState |-> "IdleState", selectedItem |-> undefined,
                insertedAmount |-> undefinedAmount]
    /\ txn = [item |-> "", paid |-> FALSE]
    /\ mn = 0
    /\ nvState = "IDLE"
    /\ nvItem = ""
    /\ nvAmount = 0
    /\ nvTimers = <<>>
    /\ nvLog = <<>>

SelectItem ==
    \E itemCode \in ItemCodes :
        /\ VendingMachine_selectItem(itemCode)
        /\ observe("SelectItem", itemCode, 0)

InsertPayment ==
    \E amount \in Amounts :
        /\ VendingMachine_insertCoin(amount)
        /\ observe("InsertPayment", "", amount)

RequestDispense ==
    /\ currentState = "HasMoneyState" => nSchedule < MaxSchedules
    /\ VendingMachine_dispenseItem
    /\ observe("RequestDispense", "", 0)

\* the event loop runs the oldest pending callback
DispenseComplete ==
    /\ timers # <<>>
    /\ timers' = Tail(timers)
    /\ dispenseCallback
    /\ UNCHANGED nSchedule
    /\ observe("DispenseComplete", "", 0)

\* a caller's vm.reset()
Reset ==
    /\ reset
    /\ log' = <<>>
    /\ noTimeout
    /\ observe("Reset", "", 0)

Next ==
    \/ SelectItem
    \/ InsertPayment
    \/ RequestDispense
    \/ DispenseComplete
    \/ Reset

Spec == Init /\ [][Next]_vars

\* the event loop eventually runs every pending callback
FairSpec == Spec /\ WF_vars(DispenseComplete)

\* ------------------------------------------------- two machines, one loop
\* Two VendingMachine objects made by the same program share the event loop
\* and nothing else.  The three fields above are those of the object the
\* caller is using (cur); the fields of the second object are kept in other.
\* A pending callback carries the object its closure captured (ctx).

\* the call is recorded; the observers of the single machine stay off
called(kind, itemCode, amount) ==
    /\ lastEvent' = [kind |-> kind, item |-> itemCode, amount |-> amount]
    /\ UNCHANGED <<nDispensing, hp, sc, repeat, rejects, txn, mn>>
    /\ UNCHANGED nvVars
    /\ UNCHANGED patternVars

\* a callback whose closure lost its context and resets the machine in use
callbackContext_current == cur

\* the context captured by the closure of the oldest pending callback
callbackContext == timers[1].ctx

\* context.reset() run on the object that is not in use
resetOther ==
    other' = [currentState |-> "IdleState", selectedItem |-> "",
              insertedAmount |-> Num(0)]

TwoSelectItem ==
    \E itemCode \in ItemCodes :
        /\ VendingMachine_selectItem(itemCode)
        /\ called("SelectItem", itemCode, 0)
        /\ UNCHANGED <<cur, other>>

TwoInsertPayment ==
    \E amount \in Amounts :
        /\ VendingMachine_insertCoin(amount)
        /\ called("InsertPayment", "", amount)
        /\ UNCHANGED <<cur, other>>

TwoRequestDispense ==
    /\ currentState = "HasMoneyState" => nSchedule < MaxSchedules
    /\ VendingMachine_dispenseItem
    /\ called("RequestDispense", "", 0)
    /\ UNCHANGED <<cur, other>>

\* the event loop runs the oldest pending callback on the object it captured
TwoDispenseComplete ==
    /\ timers # <<>>
    /\ timers' = Tail(timers)
    /\ UNCHANGED <<nSchedule, cur>>
    /\ called("DispenseComplete", "", 0)
    /\ IF callbackContext = cur
       THEN dispenseCallback /\ UNCHANGED other
       ELSE /\ log' = <<"Item dispensed successfully.">>
            /\ resetOther
            /\ UNCHANGED <<currentState, selectedItem, insertedAmount>>

TwoReset ==
    /\ reset
    /\ log' = <<>>
    /\ noTimeout
    /\ called("Reset", "", 0)
    /\ UNCHANGED <<cur, other>>

\* the caller turns to its other object: no field of either object changes
SwitchContext ==
    /\ cur' = 3 - cur
    /\ other' = [currentState |-> currentState, selectedItem |-> selectedItem,
                 insertedAmount |-> insertedAmount]
    /\ currentState' = other.currentState
    /\ selectedItem' = other.selectedItem
    /\ insertedAmount' = other.insertedAmount
    /\ called("switch", "", 0)
    /\ UNCHANGED <<timers, nSchedule, log>>

TwoNext ==
    \/ TwoSelectItem
    \/ TwoInsertPayment
    \/ TwoRequestDispense
    \/ TwoDispenseComplete
    \/ TwoReset
    \/ SwitchContext

TwoSpec == Init /\ [][TwoNext]_vars

\* ------------------------------------- the naive machine, side by side
\* The first VendingMachine class of the file keeps its state in an enum and
\* switches on it in every method.  It is given the same calls as the
\* state-pattern machine, and the event loop runs the callbacks of both.

resetMachine ==
    /\ nvItem' = ""
    /\ nvAmount' = 0
    /\ nvState' = "IDLE"

Naive_selectItem(itemCode) ==
    /\ CASE nvState = "IDLE" ->
              /\ nvItem' = itemCode
              /\ nvState' = "ITEM_SELECTED"
              /\ nvLog' = <<>>
         [] nvState = "ITEM_SELECTED" ->
              /\ nvLog' = <<"Item already selected">>
              /\ UNCHANGED <<nvItem, nvState>>
         [] nvState = "HAS_MONEY" ->
              /\ nvLog' = <<"Payment already received for item">>
              /\ UNCHANGED <<nvItem, nvState>>
         [] nvState = "DISPENSING" ->
              /\ nvLog' = <<"Currently dispensing">>
              /\ UNCHANGED <<nvItem, nvState>>
    /\ UNCHANGED <<nvAmount, nvTimers>>

Naive_insertCoin(amount) ==
    /\ CASE nvState = "IDLE" ->
              /\ nvLog' = <<"No item selected">>
              /\ UNCHANGED <<nvAmount, nvState>>
         [] nvState = "ITEM_SELECTED" ->
              /\ nvAmount' = amount
              /\ nvLog' = <<"Inserted $", amount, " for item">>
              /\ nvState' = "HAS_MONEY"
         [] nvState = "HAS_MONEY" ->
              /\ nvLog' = <<"Money already inserted">>
              /\ UNCHANGED <<nvAmount, nvState>>
         [] nvState = "DISPENSING" ->
              /\ nvLog' = <<"Currently dispensing">>
              /\ UNCHANGED <<nvAmount, nvState>>
    /\ UNCHANGED <<nvItem, nvTimers>>

Naive_dispenseItem ==
    /\ CASE nvState = "IDLE" ->
              /\ nvLog' = <<"No item selected">>
              /\ UNCHANGED <<nvState, nvTimers>>
         [] nvState = "ITEM_SELECTED" ->
              /\ nvLog' = <<"Please insert coin first">>
              /\ UNCHANGED <<nvState, nvTimers>>
         [] nvState = "HAS_MONEY" ->
              /\ nvLog' = <<"Dispensing item '", nvItem, "'">>
              /\ nvState' = "DISPENSING"
              /\ nvTimers' = Append(nvTimers, [delay |-> DispenseDelay])
         [] nvState = "DISPENSING" ->
              /\ nvLog' = <<"Already dispensing. Please wait.">>
              /\ UNCHANGED <<nvState, nvTimers>>
    /\ UNCHANGED <<nvItem, nvAmount>>

\* the arrow function handed to setTimeout in the naive dispenseItem
naiveCallback ==
    /\ nvLog' = <<"Item dispensed successfully.">>
    /\ resetMachine

\* the same call was given to both machines
calledBoth(kind, itemCode, amount) ==
    /\ lastEvent' = [kind |-> kind, item |-> itemCode, amount |-> amount]
    /\ UNCHANGED <<nDispensing, hp, sc, repeat, rejects, txn, mn, cur, other>>
    /\ UNCHANGED patternVars

PairSelectItem ==
    \E itemCode \in ItemCodes :
        /\ VendingMachine_selectItem(itemCode)
        /\ Naive_selectItem(itemCode)
        /\ calledBoth("SelectItem", itemCode, 0)

PairInsertPayment ==
    \E amount \in Amounts :
        /\ VendingMachine_insertCoin(amount)
        /\ Naive_insertCoin(amount)
        /\ calledBoth("InsertPayment", "", amount)

PairRequestDispense ==
    /\ currentState = "HasMoneyState" => nSchedule < MaxSchedules
    /\ VendingMachine_dispenseItem
    /\ Naive_dispenseItem
    /\ calledBoth("RequestDispense", "", 0)

\* the timers armed by the same dispenseItem step expire together: the event
\* loop runs the oldest callback of each machine that has one
PairDispenseComplete ==
    /\ timers # <<>> \/ nvTimers # <<>>
    /\ IF timers # <<>>
       THEN timers' = Tail(timers) /\ dispenseCallback
       ELSE UNCHANGED <<timers, currentState, selectedItem, insertedAmount, log>>
    /\ IF nvTimers # <<>>
       THEN nvTimers' = Tail(nvTimers) /\ naiveCallback
       ELSE UNCHANGED nvVars
    /\ UNCHANGED nSchedule
    /\ calledBoth("DispenseComplete", "", 0)

PairNext ==
    \/ PairSelectItem
    \/ PairInsertPayment
    \/ PairRequestDispense
    \/ PairDispenseComplete

PairSpec == Init /\ [][PairNext]_vars

\* ------------------------------------------------- command pattern: remote
\* SmartButton, its receivers Light and Thermostat and the command objects a
\* client assigns to it.  Besides the three objects of SmartHomeApp.main the
\* client holds a second SetTemperatureCommand, for 25 degrees.

null == "null"

LightCommands == {"lightOn", "lightOff"}

TemperatureCommands == {"setTemp22", "setTemp25"}

Commands == LightCommands \cup TemperatureCommands

\* SetTemperatureCommand.newTemperature, set by the constructor
newTemperature(c) == IF c = "setTemp22" THEN 22 ELSE 25

outsideButton == <<vmVars, nvVars, fwVars, pxVars, chVars, obVars>>

Light_on == sbLog' = <<"Light turned ON">>

Light_off == sbLog' = <<"Light turned OFF">>

Thermostat_setTemperature(temp) ==
    /\ sbLog' = <<"Thermostat set to ", temp>>
    /\ currentTemperature' = temp

getCurrentTemperature == currentTemperature

SetTemperatureCommand_execute(c) ==
    /\ previousTemperature' = [previousTemperature EXCEPT ![c] = Num(getCurrentTemperature)]
    /\ Thermostat_setTemperature(newTemperature(c))

SetTemperatureCommand_undo(c) ==
    /\ Thermostat_setTemperature(previousTemperature[c][1])
    /\ UNCHANGED previousTemperature

\* Command.execute(), dispatched on the class of the command object
execute(c) ==
    CASE c = "lightOn" -> Light_on /\ UNCHANGED <<currentTemperature, previousTemperature>>
      [] c = "lightOff" -> Light_off /\ UNCHANGED <<currentTemperature, previousTemperature>>
      [] c \in TemperatureCommands -> SetTemperatureCommand_execute(c)

\* Command.undo(), dispatched on the class of the command object
undo(c) ==
    CASE c = "lightOn" -> Light_off /\ UNCHANGED <<currentTemperature, previousTemperature>>
      [] c = "lightOff" -> Light_on /\ UNCHANGED <<currentTemperature, previousTemperature>>
      [] c \in TemperatureCommands -> SetTemperatureCommand_undo(c)

SetCommand ==
    \E command \in Commands :
        /\ currentCommand' = command
        /\ sbLog' = <<>>
        /\ sbLast' = [op |-> "setCommand", exec |-> 0]
        /\ UNCHANGED <<history, currentTemperature, previousTemperature, nExec,
                       undone, before, onlyTemperature, phase>>
        /\ UNCHANGED outsideButton

Press ==
    /\ currentCommand # null => nExec < MaxPresses
    /\ IF currentCommand # null
       THEN /\ execute(currentCommand)
            /\ history' = Append(history, [cmd |-> currentCommand, exec |-> nExec + 1])
            /\ nExec' = nExec + 1
            /\ before' = Append(before, currentTemperature)
            /\ onlyTemperature' = (onlyTemperature /\ currentCommand \in TemperatureCommands)
            /\ phase' = IF phase = "press" THEN "press" ELSE "mixed"
       ELSE /\ sbLog' = <<"No command assigned.">>
            /\ UNCHANGED <<history, currentTemperature, previousTemperature, nExec,
                           before, onlyTemperature, phase>>
    /\ sbLast' = [op |-> "press", exec |-> 0]
    /\ UNCHANGED <<currentCommand, undone>>
    /\ UNCHANGED outsideButton

\* undoLast that takes the oldest entry of the history instead of the newest
SmartButton_undoLast_oldest ==
    IF Len(history) > 0
    THEN LET lastCommand == history[1]
         IN  /\ history' = Tail(history)
             /\ undo(lastCommand.cmd)
             /\ sbLast' = [op |-> "undoLast", exec |-> lastCommand.exec]
             /\ undone' = undone \cup {lastCommand.exec}
             /\ phase' = IF phase = "press" THEN "undo" ELSE phase
    ELSE /\ sbLog' = <<"Nothing to undo.">>
         /\ sbLast' = [op |-> "undoLast", exec |-> 0]
         /\ UNCHANGED <<history, currentTemperature, previousTemperature, undone, phase>>

SmartButton_undoLast ==
    IF Len(history) > 0
    THEN LET lastCommand == history[Len(history)]
         IN  /\ history' = SubSeq(history, 1, Len(history) - 1)
             /\ undo(lastCommand.cmd)
             /\ sbLast' = [op |-> "undoLast", exec |-> lastCommand.exec]
             /\ undone' = undone \cup {lastCommand.exec}
             /\ phase' = IF phase = "press" THEN "undo" ELSE phase
    ELSE /\ sbLog' = <<"Nothing to undo.">>
         /\ sbLast' = [op |-> "undoLast", exec |-> 0]
         /\ UNCHANGED <<history, currentTemperature, previousTemperature, undone, phase>>

UndoLast ==
    /\ SmartButton_undoLast
    /\ UNCHANGED <<currentCommand, nExec, before, onlyTemperature>>
    /\ UNCHANGED outsideButton

ButtonNext ==
    \/ SetCommand
    \/ Press
    \/ UndoLast

ButtonSpec == Init /\ [][ButtonNext]_vars

\* ------------------------------------------------- flyweight: glyph cache
\* CharacterFlyweightFactory.  A flyweight object is its identity (the number
\* of the constructor call that made it) and the four fields the constructor
\* stored.  The cache is a JavaScript object used as a map from strings.

Symbols == {"A", "B"}

FontFamilies == {"Arial", "Arial1"}

FontSizes == {2, 12}

Colors == {"red"}

outsideFlyweight == <<vmVars, nvVars, sbVars, pxVars, chVars, obVars>>

\* symbol + fontFamily + fontSize + color: string concatenation, the number
\* written in decimal
cacheKey(symbol, fontFamily, fontSize, color) ==
    symbol \o fontFamily \o ToString(fontSize) \o color

\* new ConcreteCharacterFlyweight(symbol, fontFamily, fontSize, color)
ConcreteCharacterFlyweight(symbol, fontFamily, fontSize, color) ==
    [id |-> nObjects + 1, symbol |-> symbol, fontFamily |-> fontFamily,
     fontSize |-> fontSize, color |-> color]

GetFlyweight ==
    /\ Cardinality(given) < MaxRequests
    /\ \E symbol \in Symbols, fontFamily \in FontFamilies,
          fontSize \in FontSizes, color \in Colors :
        LET key == cacheKey(symbol, fontFamily, fontSize, color)
            requested == [symbol |-> symbol, fontFamily |-> fontFamily,
                          fontSize |-> fontSize, color |-> color]
        IN  /\ IF key \notin DOMAIN flyweights
               THEN /\ flyweights' = flyweights @@
                          (key :> ConcreteCharacterFlyweight(symbol, fontFamily, fontSize, color))
                    /\ nObjects' = nObjects + 1
               ELSE UNCHANGED <<flyweights, nObjects>>
            /\ fwLast' = [op |-> "getFlyweight", requested |-> requested,
                          returned |-> flyweights'[key]]
            /\ given' = given \cup {[requested |-> requested, returned |-> flyweights'[key]]}
    /\ UNCHANGED outsideFlyweight

FlyweightNext == GetFlyweight

FlyweightSpec == Init /\ [][FlyweightNext]_vars

\* ------------------------------------------------- proxy: image gallery
\* ImageProxy and the HighResolutionImage it stands for.  The gallery makes
\* one proxy per file, as ImageGalleryAppV2.main does.

FileNames == {"photo1.jpg", "photo2.png", "photo3.gif"}

outsideProxy == <<vmVars, nvVars, sbVars, fwVars, chVars, obVars>>

\* a field of type HighResolutionImage | null holds the empty tuple for null
\* and the tuple <<image>> for an image object
nullImage == <<>>

Ref(image) == <<image>>

\* the two lines loadImageFromDisk writes
loadImageFromDisk(fileName) ==
    << <<"Loading image: ", fileName, " from disk (Expensive Operation)...">>,
       <<"Image ", fileName, " loaded successfully.">> >>

\* new HighResolutionImage(fileName): the constructor loads the image
HighResolutionImage(fileName) == [fileName |-> fileName, imageData |-> "loaded"]

HighResolutionImage_display(image) == << <<"Displaying image: ", image.fileName>> >>

NewImageProxy ==
    \E fileName \in FileNames \ proxies :
        /\ proxies' = proxies \cup {fileName}
        /\ realImage' = realImage @@ (fileName :> nullImage)
        /\ loads' = loads @@ (fileName :> 0)
        /\ displays' = displays @@ (fileName :> 0)
        /\ pxLog' = << <<"ImageProxy: Created for ", fileName, ". Real image not loaded yet.">> >>
        /\ pxLast' = [op |-> "new", proxy |-> fileName, result |-> ""]
        /\ UNCHANGED outsideProxy

GetFileName ==
    \E p \in proxies :
        /\ pxLast' = [op |-> "getFileName", proxy |-> p, result |-> p]
        /\ pxLog' = <<>>
        /\ UNCHANGED <<proxies, realImage, loads, displays>>
        /\ UNCHANGED outsideProxy

\* display() that loads the image and does not keep it
ImageProxy_display_uncached(p) ==
    IF realImage[p] = nullImage
    THEN /\ UNCHANGED realImage
         /\ loads' = [loads EXCEPT ![p] = @ + 1]
         /\ pxLog' = << <<"ImageProxy: display() requested for ", p, ". Loading high-resolution image...">> >>
                        \o loadImageFromDisk(p)
                        \o HighResolutionImage_display(HighResolutionImage(p))
    ELSE /\ UNCHANGED <<realImage, loads>>
         /\ pxLog' = << <<"ImageProxy: Using cached high-resolution image for ", p>> >>
                        \o HighResolutionImage_display(realImage[p][1])

ImageProxy_display(p) ==
    IF realImage[p] = nullImage
    THEN /\ realImage' = [realImage EXCEPT ![p] = Ref(HighResolutionImage(p))]
         /\ loads' = [loads EXCEPT ![p] = @ + 1]
         /\ pxLog' = << <<"ImageProxy: display() requested for ", p, ". Loading high-resolution image...">> >>
                        \o loadImageFromDisk(p)
                        \o HighResolutionImage_display(realImage'[p][1])
    ELSE /\ UNCHANGED <<realImage, loads>>
         /\ pxLog' = << <<"ImageProxy: Using cached high-resolution image for ", p>> >>
                        \o HighResolutionImage_display(realImage[p][1])

Display ==
    \E p \in proxies :
        /\ displays[p] < MaxDisplays
        /\ ImageProxy_display(p)
        /\ displays' = [displays EXCEPT ![p] = @ + 1]
        /\ pxLast' = [op |-> "display", proxy |-> p, result |-> ""]
        /\ UNCHANGED proxies
        /\ UNCHANGED outsideProxy

ProxyNext ==
    \/ NewImageProxy
    \/ GetFileName
    \/ Display

ProxySpec == Init /\ [][ProxyNext]_vars

\* ------------------------------------- chain of responsibility: requests
\* The naive RequestHandler and the chain AuthHandler -> AuthorizationHandler
\* -> RateLimitHandler -> ValidationHandler -> BusinessLogicHandler, given the
\* same Request.  A string is the tuple of its characters; a nullable field
\* holds <<>> for null and <<v>> for the value v; a number is <<n>> and NaN
\* is <<>>.  Console lines are written without their pictographs.

nullRef == <<>>

RateLimit == 100

Users == {nullRef, Ref("john")}

Roles == {"ADMIN", "USER", "admin"}

RequestCounts == {Num(10), Num(99), Num(100), Num(150), NaN}

Payloads == {nullRef, Ref(<<>>), Ref(<<" ", "\t">>), Ref(<<"{", "}">>),
             Ref(<<" ", "{", " ", "}", " ">>)}

Requests == [user : Users, userRole : Roles, requestCount : RequestCounts,
             payload : Payloads]

outsideChain == <<vmVars, nvVars, sbVars, fwVars, pxVars, obVars>>

\* a < b and a >= b on JavaScript numbers: every comparison with NaN is false
lessThan(a, b) == a # NaN /\ a[1] < b

atLeast(a, b) == a # NaN /\ a[1] >= b

WhiteSpace == {" ", "\t", "\n"}

RECURSIVE trimStart(_)
trimStart(text) ==
    IF text # <<>> /\ Head(text) \in WhiteSpace THEN trimStart(Tail(text)) ELSE text

RECURSIVE trimEnd(_)
trimEnd(text) ==
    IF text # <<>> /\ text[Len(text)] \in WhiteSpace
    THEN trimEnd(SubSeq(text, 1, Len(text) - 1))
    ELSE text

\* String.prototype.trim
trim(text) == trimEnd(trimStart(text))

\* the private checks of the naive RequestHandler
authenticate(req) == req.user # nullRef

authorize(req) == req.userRole = "ADMIN"

rateLimit(req) == lessThan(req.requestCount, RateLimit)

validate(req) == req.payload # nullRef /\ trim(req.payload[1]) # <<>>

RequestHandler_handle(request) ==
    IF ~authenticate(request) THEN <<"Request Rejected: Authentication failed.">>
    ELSE IF ~authorize(request) THEN <<"Request Rejected: Authorization failed.">>
    ELSE IF ~rateLimit(request) THEN <<"Request Rejected: Rate limit exceeded.">>
    ELSE IF ~validate(request) THEN <<"Request Rejected: Invalid payload.">>
    ELSE <<"Request passed all checks. Executing business logic...">>

\* BaseHandler.next of each handler after the setNext calls of main
nextHandler ==
    [h \in {"auth", "authorization", "rateLimit", "validation", "businessLogic"} |->
        CASE h = "auth" -> "authorization"
          [] h = "authorization" -> "rateLimit"
          [] h = "rateLimit" -> "validation"
          [] h = "validation" -> "businessLogic"
          [] h = "businessLogic" -> null]

RECURSIVE Handler_handle(_, _)

\* BaseHandler.forward
forward(h, request) ==
    IF nextHandler[h] # null THEN Handler_handle(nextHandler[h], request) ELSE <<>>

RateLimitHandler_handle(h, request) ==
    IF atLeast(request.requestCount, RateLimit)
    THEN <<"RateLimitHandler: Rate limit exceeded.">>
    ELSE <<"RateLimitHandler: Within rate limit.">> \o forward(h, request)

\* handle() of the handler object h, dispatched on its class
Handler_handle(h, request) ==
    CASE h = "auth" ->
            IF request.user = nullRef
            THEN <<"AuthHandler: User not authenticated.">>
            ELSE <<"AuthHandler: Authenticated.">> \o forward(h, request)
      [] h = "authorization" ->
            IF request.userRole # "ADMIN"
            THEN <<"AuthorizationHandler: Access denied.">>
            ELSE <<"AuthorizationHandler: Authorized.">> \o forward(h, request)
      [] h = "rateLimit" -> RateLimitHandler_handle(h, request)
      [] h = "validation" ->
            IF request.payload = nullRef \/ trim(request.payload[1]) = <<>>
            THEN <<"ValidationHandler: Invalid payload.">>
            ELSE <<"ValidationHandler: Payload valid.">> \o forward(h, request)
      [] h = "businessLogic" -> <<"BusinessLogicHandler: Processing request...">>

\* the same request goes to handler.handle(req) and to auth.handle(request)
HandleRequest ==
    \E request \in Requests :
        /\ chLast' = [op |-> "handle", request |-> request]
        /\ naiveLog' = RequestHandler_handle(request)
        /\ chainLog' = Handler_handle("auth", request)
        /\ UNCHANGED outsideChain

ChainNext == HandleRequest

ChainSpec == Init /\ [][ChainNext]_vars

\* ------------------------------------------------- observer: fitness data
\* FitnessData and its observers LiveActivityDisplay, ProgressLogger and
\* GoalNotifier (one object of each, as in FitnessAppObserverDemo.main).  A
\* reading that was never assigned is undefined and compares like NaN.

Observers == {"display", "logger", "notifier"}

\* steps, active minutes, calories
Readings == {<<500, 5, 20>>, <<9800, 85, 350>>, <<10000, 88, 370>>, <<10100, 90, 380>>}

outsideObserver == <<vmVars, nvVars, sbVars, fwVars, pxVars, chVars>>

\* Array.prototype.indexOf: the first position of the element, -1 when absent
indexOf(list, element) ==
    IF \E i \in 1..Len(list) : list[i] = element
    THEN (CHOOSE i \in 1..Len(list) :
              list[i] = element /\ \A j \in 1..(i - 1) : list[j] # element) - 1
    ELSE -1

\* Array.prototype.splice(index, 1), index counted from 0
splice(list, index) ==
    SubSeq(list, 1, index) \o SubSeq(list, index + 2, Len(list))

\* the loop of notifyObservers over the list, GoalNotifier.update included:
\* every observer reads the steps the subject holds when it is called
RECURSIVE updates(_, _, _)
updates(list, reading, reached) ==
    IF list = <<>> THEN <<>>
    ELSE LET alert == /\ Head(list) = "notifier"
                      /\ atLeast(reading, StepGoal)
                      /\ ~reached
         IN  <<[observer |-> Head(list), steps |-> reading, alert |-> alert]>>
               \o updates(Tail(list), reading, reached \/ alert)

\* notifyObservers(), called when the subject holds the reading given
notifyObservers(reading) ==
    /\ obLog' = updates(observers, reading, goalReached)
    /\ goalReached' = (goalReached \/ \E i \in 1..Len(obLog') : obLog'[i].alert)
    /\ alerts' = alerts + Cardinality({i \in 1..Len(obLog') : obLog'[i].alert})
    /\ qualified' = (qualified \/ \E i \in 1..Len(obLog') :
                          obLog'[i].observer = "notifier" /\ atLeast(obLog'[i].steps, StepGoal))

RegisterObserver ==
    \E observer \in Observers :
        /\ Len(observers) < MaxObservers
        /\ observers' = Append(observers, observer)
        /\ obLog' = <<>>
        /\ obLast' = [op |-> "registerObserver", observer |-> observer, steps |-> NaN]
        /\ UNCHANGED <<steps, activeMinutes, calories, goalReached, alerts, qualified>>
        /\ UNCHANGED outsideObserver

\* removeObserver that drops every registration of the observer
FitnessData_removeObserver_all(observer) ==
    observers' = SelectSeq(observers, LAMBDA o : o # observer)

FitnessData_removeObserver(observer) ==
    LET index == indexOf(observers, observer)
    IN  IF index > -1
        THEN observers' = splice(observers, index)
        ELSE UNCHANGED observers

RemoveObserver ==
    \E observer \in Observers :
        /\ FitnessData_removeObserver(observer)
        /\ obLog' = <<>>
        /\ obLast' = [op |-> "removeObserver", observer |-> observer, steps |-> NaN]
        /\ UNCHANGED <<steps, activeMinutes, calories, goalReached, alerts, qualified>>
        /\ UNCHANGED outsideObserver

\* a caller's fitnessData.notifyObservers()
NotifyObservers ==
    /\ notifyObservers(steps)
    /\ obLast' = [op |-> "notifyObservers", observer |-> "", steps |-> NaN]
    /\ UNCHANGED <<observers, steps, activeMinutes, calories>>
    /\ UNCHANGED outsideObserver

FitnessData_newFitnessDataPushed(reading) ==
    /\ steps' = Num(reading[1])
    /\ activeMinutes' = Num(reading[2])
    /\ calories' = Num(reading[3])
    /\ notifyObservers(steps')

NewFitnessDataPushed ==
    \E reading \in Readings :
        /\ FitnessData_newFitnessDataPushed(reading)
        /\ obLast' = [op |-> "newFitnessDataPushed", observer |-> "", steps |-> Num(reading[1])]
        /\ UNCHANGED observers
        /\ UNCHANGED outsideObserver

DailyReset ==
    /\ steps' = Num(0)
    /\ activeMinutes' = Num(0)
    /\ calories' = Num(0)
    /\ notifyObservers(steps')
    /\ obLast' = [op |-> "dailyReset", observer |-> "", steps |-> Num(0)]
    /\ UNCHANGED observers
    /\ UNCHANGED outsideObserver

\* GoalNotifier.reset()
GoalNotifier_reset ==
    /\ goalReached' = FALSE
    /\ alerts' = 0
    /\ qualified' = FALSE
    /\ obLog' = <<>>
    /\ obLast' = [op |-> "reset", observer |-> "notifier", steps |-> NaN]
    /\ UNCHANGED <<observers, steps, activeMinutes, calories>>
    /\ UNCHANGED outsideObserver

ObserverNext ==
    \/ RegisterObserver
    \/ RemoveObserver
    \/ NotifyObservers
    \/ NewFitnessDataPushed
    \/ DailyReset
    \/ GoalNotifier_reset

ObserverSpec == Init /\ [][ObserverNext]_vars

\* ================================================================ claims
\* the console line of a call tells whether the call was carried out
accepted == lastEvent.kind = "Reset" \/ (log # <<>> /\ log[1] \in AcceptLogs)

UserEvents == {"SelectItem", "InsertPayment", "RequestDispense"}

itemPresent == selectedItem \notin {undefined, ""}

amountHeld == insertedAmount \notin {undefinedAmount, Num(0)}

emptyTransaction == ~itemPresent /\ ~amountHeld

\* the transition table of the specification; "-" is a rejected pair
TableNext(state, kind) ==
    IF kind = "Reset" THEN "IdleState"
    ELSE IF state = "IdleState" /\ kind = "SelectItem" THEN "ItemSelectedState"
    ELSE IF state = "ItemSelectedState" /\ kind = "InsertPayment" THEN "HasMoneyState"
    ELSE IF state = "HasMoneyState" /\ kind = "RequestDispense" THEN "DispensingState"
    ELSE IF state = "DispensingState" /\ kind = "DispenseComplete" THEN "IdleState"
    ELSE "-"

\* C1: every (state, event) pair is handled as the transition table says:
\* the four accepting pairs move to the next state with the item code and
\* the amount of the event, Reset leads to Idle, every other pair is rejected.
C1_TransitionTable ==
    [][LET kind == lastEvent'.kind
           next == TableNext(currentState, kind)
       IN  IF next = "-"
           THEN ~accepted' /\ currentState' = currentState
           ELSE /\ accepted'
                /\ currentState' = next
                /\ next = "ItemSelectedState" => selectedItem' = lastEvent'.item
                /\ next = "HasMoneyState" =>
                       /\ selectedItem' = selectedItem
                       /\ insertedAmount' = Num(lastEvent'.amount)
                /\ next = "DispensingState" => selectedItem' = selectedItem]_vars

\* C2: an event that the table does not list for the current state leaves
\* the state and the transaction unchanged and is reported as not accepted.
C2_RejectedUnchanged ==
    [][TableNext(currentState, lastEvent'.kind) = "-" =>
           /\ ~accepted'
           /\ UNCHANGED <<currentState, selectedItem, insertedAmount>>]_vars

\* C3: Reset from any state leads to Idle with an empty transaction and
\* leaves no completion callback outstanding.
C3_ResetCancels ==
    [][lastEvent'.kind = "Reset" =>
           /\ currentState' = "IdleState"
           /\ selectedItem' = ""
           /\ insertedAmount' = Num(0)
           /\ timers' = <<>>]_vars

\* C4: at most one completion callback is outstanding in every reachable
\* state.
C4_SingleFlight == Len(timers) <= 1

\* C5: a completion is pending exactly while the machine is dispensing.
C5_PendingIffDispensing == (timers # <<>>) <=> (currentState = "DispensingState")

\* C6: a step schedules a completion exactly when it enters Dispensing, it
\* schedules one, with the delay of 1000 ms, and so the number of setTimeout
\* calls always equals the number of transitions into Dispensing.
C6_ScheduleOnDispense ==
    /\ [](/\ nSchedule = nDispensing
          /\ \A i \in 1..Len(timers) : timers[i].delay = 1000)
    /\ [][LET entering == /\ currentState' = "DispensingState"
                          /\ currentState # "DispensingState"
                          /\ lastEvent'.kind = "RequestDispense"
          IN  /\ entering => /\ nSchedule' = nSchedule + 1
                             /\ timers' = Append(timers, timers'[Len(timers')])
              /\ ~entering => /\ nSchedule' = nSchedule
                              /\ Len(timers') <= Len(timers)]_vars

C6_Witness ==
    /\ nDispensing = 2
    /\ lastEvent.kind = "RequestDispense"
    /\ currentState = "DispensingState"
    /\ log[1] = "Dispensing item: "

\* C7: on an idle machine with nothing pending, SelectItem("A1"),
\* InsertPayment(1.5), RequestDispense, DispenseComplete are all accepted and
\* visit ItemSelected{A1}, HasFunds{A1,1.5}, Dispensing{A1}, Idle{}; the only
\* setTimeout call is made by RequestDispense and the one firing resolves it.
C7_HappyPath ==
    /\ hp.pos = 1 => /\ currentState = "ItemSelectedState"
                     /\ selectedItem = "A1"
                     /\ accepted
                     /\ timers = <<>> /\ nSchedule = hp.base
    /\ hp.pos = 2 => /\ currentState = "HasMoneyState"
                     /\ selectedItem = "A1" /\ insertedAmount = Num(15)
                     /\ accepted
                     /\ timers = <<>> /\ nSchedule = hp.base
    /\ hp.pos = 3 => /\ currentState = "DispensingState"
                     /\ selectedItem = "A1"
                     /\ accepted
                     /\ Len(timers) = 1 /\ nSchedule = hp.base + 1
                     /\ timers[1].id = nSchedule
    /\ hp.pos = 4 => /\ currentState = "IdleState"
                     /\ emptyTransaction
                     /\ accepted
                     /\ timers = <<>> /\ nSchedule = hp.base + 1

C7_Witness == hp.pos = 4 /\ lastEvent.kind = "DispenseComplete"

\* C8: while dispensing, SelectItem, InsertPayment and RequestDispense are
\* rejected and change nothing the machine holds (state, transaction, pending
\* callbacks), so nothing of them is left to act later; the step that leaves
\* Dispensing lands in Idle with an empty transaction and schedules nothing.
C8_BusyRejects ==
    [][currentState = "DispensingState" =>
           IF lastEvent'.kind \in UserEvents
           THEN ~accepted' /\ UNCHANGED <<machine, nSchedule>>
           ELSE /\ currentState' = "IdleState"
                /\ selectedItem' = "" /\ insertedAmount' = Num(0)
                /\ nSchedule' = nSchedule
                /\ Len(timers') <= Len(timers)]_vars

C8_Witness ==
    /\ currentState = "DispensingState"
    /\ lastEvent.kind = "SelectItem"
    /\ lastEvent.item # selectedItem
    /\ ~accepted

C10_IdleEmpty == currentState = "IdleState" => emptyTransaction

C10_Witness ==
    /\ currentState = "IdleState"
    /\ lastEvent.kind = "DispenseComplete"
    /\ nDispensing > 0

\* C11 (as stated): InsertPayment with an amount <= 0 is rejected in
\* ItemSelected: the state stays ItemSelected, no amount is recorded and the
\* call is reported as not accepted.
C11_NonPositiveRejected ==
    [][(/\ currentState = "ItemSelectedState"
        /\ lastEvent'.kind = "InsertPayment"
        /\ lastEvent'.amount <= 0) =>
           /\ currentState' = "ItemSelectedState"
           /\ insertedAmount' = insertedAmount
           /\ ~accepted']_vars

\* C12: handling is total and never raises: in every reachable state each of
\* selectItem, insertCoin, dispenseItem (with every payload) and reset
\* returns normally, a pending callback runs to its end, and the machine is
\* never left in a state other than the four.
C12_TotalHandling ==
    /\ currentState \in MachineStates
    /\ \A itemCode \in ItemCodes : ENABLED VendingMachine_selectItem(itemCode)
    /\ \A amount \in Amounts : ENABLED VendingMachine_insertCoin(amount)
    /\ ENABLED VendingMachine_dispenseItem
    /\ ENABLED reset
    /\ timers # <<>> => ENABLED dispenseCallback

C12_Witness ==
    /\ currentState = "IdleState"
    /\ lastEvent.kind = "InsertPayment"
    /\ ~accepted
    /\ log = <<"Please select an item before inserting coins.">>

\* C16: a second InsertPayment in HasFunds is rejected: the state stays
\* HasFunds and the amount held keeps the value of the first payment.
C16_SecondPaymentDropped ==
    [][(currentState = "HasMoneyState" /\ lastEvent'.kind = "InsertPayment") =>
           /\ ~accepted'
           /\ currentState' = "HasMoneyState"
           /\ insertedAmount' = insertedAmount
           /\ UNCHANGED <<selectedItem, timers>>]_vars

C16_Witness ==
    /\ currentState = "HasMoneyState"
    /\ lastEvent.kind = "InsertPayment"
    /\ ~accepted
    /\ insertedAmount # Num(lastEvent.amount)
    /\ amountHeld

sameEvent == lastEvent' = lastEvent

\* C13: a refused call changes neither state nor transaction, and the same
\* call made again right after it is refused with the same console lines.
C13_RejectionIdempotent ==
    [][/\ (lastEvent'.kind \in UserEvents /\ ~accepted') => UNCHANGED machine
       /\ (sameEvent /\ lastEvent.kind \in UserEvents /\ ~accepted) =>
              /\ ~accepted'
              /\ log' = log
              /\ UNCHANGED machine]_vars

C13_Witness ==
    /\ repeat = 2
    /\ lastEvent.kind = "SelectItem"
    /\ ~accepted
    /\ currentState = "ItemSelectedState"
    /\ lastEvent.item # selectedItem

differentPair(r1, r2) == r1.state # r2.state \/ r1.kind # r2.kind

\* C14 (as stated): two refused (state, event) pairs that differ in state or
\* in event kind never write the same diagnostic.
C14_DistinctDiagnostics ==
    (Len(rejects) = 2 /\ differentPair(rejects[1], rejects[2])) =>
        rejects[1].msg # rejects[2].msg

busyPair(r) == r.state = "DispensingState" /\ r.kind \in {"SelectItem", "InsertPayment"}

\* C14 (amended): two refused pairs that differ in state or in event kind
\* never write the same diagnostic, except SelectItem and InsertPayment in
\* Dispensing, which write the same line.
C14_DistinctButBusy ==
    (Len(rejects) = 2 /\ differentPair(rejects[1], rejects[2])) =>
        \/ rejects[1].msg # rejects[2].msg
        \/ busyPair(rejects[1]) /\ busyPair(rejects[2])

C14_Witness ==
    /\ Len(rejects) = 2
    /\ rejects[1].state = "IdleState" /\ rejects[1].kind = "RequestDispense"
    /\ rejects[2].state = "DispensingState" /\ rejects[2].kind = "RequestDispense"
    /\ rejects[1].msg # rejects[2].msg

C17_DispensingEnds ==
    /\ [][(currentState = "DispensingState" /\ currentState' # "DispensingState") =>
              /\ lastEvent'.kind \in {"DispenseComplete", "Reset"}
              /\ currentState' = "IdleState"]_vars
    /\ (currentState = "DispensingState") ~> (currentState = "IdleState")

C17_Witness ==
    /\ currentState = "IdleState"
    /\ lastEvent.kind = "DispenseComplete"
    /\ timers = <<>>
    /\ nSchedule = MaxSchedules

\* C18: the completion is a later step, never part of the call that
\* scheduled it: after an accepted RequestDispense the machine is in
\* Dispensing with its callback pending, every call handled while a callback
\* is pending finds the machine in Dispensing, and state and transaction
\* change only in the step of one handled event.
C18_AtomicHandling ==
    [][/\ (lastEvent'.kind = "RequestDispense" /\ accepted') =>
              /\ currentState' = "DispensingState"
              /\ timers' # <<>>
              /\ timers'[Len(timers')].id = nSchedule'
       /\ (lastEvent'.kind \in UserEvents \cup {"Reset"} /\ timers # <<>>) =>
              currentState = "DispensingState"
       /\ machine' # machine =>
              lastEvent'.kind \in UserEvents \cup {"Reset", "DispenseComplete"}]_vars

\* the callback that runs next belongs to the dispense in progress
ownCallback ==
    /\ currentState = "DispensingState"
    /\ timers # <<>>
    /\ timers[1].id = nSchedule

\* C20: DispenseComplete ends only the dispense that scheduled it: a callback
\* that runs in Idle, ItemSelected or HasFunds, or that was scheduled by an
\* earlier dispense than the one in progress, leaves state and transaction
\* unchanged.
C20_OwnEpisodeOnly ==
    [][lastEvent'.kind = "DispenseComplete" =>
           IF ownCallback
           THEN currentState' = "IdleState"
           ELSE UNCHANGED <<currentState, selectedItem, insertedAmount>>]_vars

\* the fields of VendingMachine object i
inst(i) ==
    IF i = cur
    THEN [currentState |-> currentState, selectedItem |-> selectedItem,
          insertedAmount |-> insertedAmount]
    ELSE other

isOf(i, t) == t.ctx = i

\* the callbacks pending for object i
pending(i) == SelectSeq(timers, LAMBDA t : isOf(i, t))

\* the object a step acts on: the one in use for a call, the captured one
\* for a callback, none when the caller only turns to its other object
actsOn ==
    IF lastEvent'.kind = "switch" THEN 0
    ELSE IF lastEvent'.kind = "DispenseComplete" THEN timers[1].ctx
    ELSE cur

\* C19: a call handled by one VendingMachine object, and a callback scheduled
\* by it, leave the state, the transaction and the pending callbacks of the
\* other object unchanged.
C19_InstancesIndependent ==
    [][\A i \in {1, 2} :
           i # actsOn => /\ inst(i)' = inst(i)
                         /\ pending(i)' = pending(i)]_vars

C19_Witness ==
    /\ cur = 2
    /\ lastEvent.kind = "DispenseComplete"
    /\ currentState = "DispensingState"
    /\ pending(2) # <<>>
    /\ other.currentState = "IdleState"
    /\ pending(1) = <<>>

\* C21: once an item is selected its code cannot be changed within the
\* transaction: while the machine is away from IdleState the recorded item is
\* the one of the selectItem call that was carried out, and a selectItem call
\* made in ItemSelectedState, HasMoneyState or DispensingState changes neither
\* the item nor the state.
C21_ItemFixed ==
    [][ /\ currentState' # "IdleState" => selectedItem' = txn'.item
        /\ (lastEvent'.kind = "SelectItem" /\ currentState # "IdleState")
              => (selectedItem' = selectedItem /\ currentState' = currentState)
      ]_vars

\* a second code was offered after the coin and the first code is still held
C21_Witness ==
    /\ lastEvent.kind = "SelectItem"
    /\ currentState = "HasMoneyState"
    /\ itemPresent
    /\ lastEvent.item # selectedItem
    /\ selectedItem = txn.item

\* C22: nothing is dispensed without selection and payment: every step into
\* DispensingState starts in HasMoneyState, comes after a selectItem and then
\* an insertCoin that were carried out since the machine was last idle, and
\* announces the item of that selectItem.
C22_PaidBeforeDispense ==
    [][ (currentState' = "DispensingState" /\ currentState # "DispensingState")
          => /\ currentState = "HasMoneyState"
             /\ txn.item \in ItemCodes
             /\ txn.paid
             /\ insertedAmount # undefinedAmount
             /\ log' = <<"Dispensing item: ", txn.item>>
      ]_vars

\* a dispense has just been started for the item that was selected and paid
C22_Witness ==
    /\ currentState = "DispensingState"
    /\ lastEvent.kind = "RequestDispense"
    /\ log = <<"Dispensing item: ", txn.item>>
    /\ txn.paid
    /\ txn.item \in ItemCodes

\* C24: at the end of VendingMachineApp.main the second transaction has been
\* carried out as a second purchase: B2 is the selected item, 2.0 is the
\* inserted amount and two dispenses have been started.
C24_SecondPurchase ==
    mn = Len(Main)
      => /\ selectedItem = "B2"
         /\ insertedAmount = Num(20)
         /\ nDispensing = 2

\* enum State of the naive class against the state classes of the pattern
corresponding(state) ==
    CASE state = "IdleState" -> "IDLE"
      [] state = "ItemSelectedState" -> "ITEM_SELECTED"
      [] state = "HasMoneyState" -> "HAS_MONEY"
      [] state = "DispensingState" -> "DISPENSING"

\* C23: run side by side on the same calls and timer firings, the naive
\* machine and the state-pattern machine are always in corresponding states,
\* hold equal selected items and equal inserted amounts, and have the same
\* number of completions scheduled.
C23_NaiveEquivalent ==
    /\ nvState = corresponding(currentState)
    /\ selectedItem = nvItem
    /\ insertedAmount = Num(nvAmount)
    /\ Len(timers) = Len(nvTimers)

\* the console line of the receiver action a command's execute() performs
executeLine(c) ==
    CASE c = "lightOn" -> <<"Light turned ON">>
      [] c = "lightOff" -> <<"Light turned OFF">>
      [] c \in TemperatureCommands -> <<"Thermostat set to ", newTemperature(c)>>

\* the executions that have not been undone
live == (1..nExec) \ undone

\* C25: undo is last-in-first-out and single-use: press() with a command
\* assigned executes it once and records it; undoLast() undoes the most recent
\* execution that is not yet undone, so none is undone twice; press() with no
\* command assigned and undoLast() on an empty history change neither the
\* history nor a receiver.
C25_LifoUndo ==
    [][ /\ (sbLast'.op = "press" /\ currentCommand # null)
              => /\ sbLog' = executeLine(currentCommand)
                 /\ nExec' = nExec + 1
                 /\ history' = Append(history, [cmd |-> currentCommand, exec |-> nExec'])
        /\ (sbLast'.op = "undoLast" /\ history # <<>>)
              => /\ sbLast'.exec \in live
                 /\ \A e \in live : e <= sbLast'.exec
                 /\ undone' = undone \cup {sbLast'.exec}
                 /\ Len(history') = Len(history) - 1
                 /\ \A i \in 1..Len(history') : history'[i] = history[i]
        /\ (sbLast'.op = "press" /\ currentCommand = null)
              => /\ sbLog' = <<"No command assigned.">>
                 /\ UNCHANGED <<history, currentTemperature, previousTemperature, undone>>
        /\ (sbLast'.op = "undoLast" /\ history = <<>>)
              => /\ sbLog' = <<"Nothing to undo.">>
                 /\ UNCHANGED <<history, currentTemperature, previousTemperature, undone>>
      ]_vars

\* three executions, the second and third undone before the first
C25_Witness ==
    /\ sbLast = [op |-> "undoLast", exec |-> 1]
    /\ Cardinality(undone) >= 3
    /\ history = <<>>

\* C26: undo is a round trip for the thermostat: after n press() calls of
\* SetTemperatureCommand objects followed by undoLast() calls only, the
\* temperature is the one read before the oldest execution that has been
\* undone: before the (n-k+1)-th press after k undos, before the first press
\* after n.
C26_UndoRoundTrip ==
    (onlyTemperature /\ phase = "undo" /\ Len(history) < nExec)
      => currentTemperature = before[Len(history) + 1]

\* the four fields a flyweight object stores
intrinsic(flyweight) ==
    [symbol |-> flyweight.symbol, fontFamily |-> flyweight.fontFamily,
     fontSize |-> flyweight.fontSize, color |-> flyweight.color]

\* C27: getFlyweight returns a flyweight whose intrinsic state is the one
\* asked for; two calls return the same object exactly when they asked for
\* the same intrinsic state; the cache holds one flyweight per distinct
\* intrinsic state asked for so far.
C27_FlyweightPerState ==
    /\ \A g \in given : intrinsic(g.returned) = g.requested
    /\ \A g, h \in given : (g.requested = h.requested) <=> (g.returned.id = h.returned.id)
    /\ Cardinality(DOMAIN flyweights) = Cardinality({g.requested : g \in given})

\* C28: ImageProxy loads the real image lazily and at most once: the
\* constructor and getFileName() never load; the first display() loads the
\* image and then displays it; a later display() reuses the image; so a proxy
\* has loaded 0 times if display() was never called on it and once otherwise.
C28_LazyLoadOnce ==
    [][ /\ \A p \in proxies' : loads'[p] = IF displays'[p] = 0 THEN 0 ELSE 1
        /\ pxLast'.op \in {"new", "getFileName"}
              => /\ \A p \in proxies : loads'[p] = loads[p] /\ realImage'[p] = realImage[p]
                 /\ \A line \in 1..Len(pxLog') : pxLog'[line][1] # "Loading image: "
        /\ pxLast'.op = "getFileName" => pxLast'.result = pxLast'.proxy
        /\ pxLast'.op = "display"
              => LET p == pxLast'.proxy
                 IN  IF displays[p] = 0
                     THEN /\ loads'[p] = loads[p] + 1
                          /\ Len(pxLog') = 4
                          /\ pxLog'[2][1] = "Loading image: "
                          /\ pxLog'[4] = <<"Displaying image: ", p>>
                     ELSE /\ loads'[p] = loads[p]
                          /\ realImage'[p] = realImage[p]
                          /\ pxLog'[Len(pxLog')] = <<"Displaying image: ", p>>
                          /\ \A line \in 1..Len(pxLog') : pxLog'[line][1] # "Loading image: "
      ]_vars

\* the run of ImageGalleryAppV2.main: photo1 displayed twice, photo2 never,
\* photo3 once
C28_Witness ==
    /\ proxies = FileNames
    /\ displays["photo1.jpg"] = 2 /\ loads["photo1.jpg"] = 1
    /\ displays["photo2.png"] = 0 /\ loads["photo2.png"] = 0
    /\ displays["photo3.gif"] = 1 /\ loads["photo3.gif"] = 1

\* the four checks as the specification names them, in chain order: the
\* number of the first one the request fails, 5 when it passes them all
firstFailing(req) ==
    IF req.user = nullRef THEN 1
    ELSE IF req.userRole # "ADMIN" THEN 2
    ELSE IF ~(req.requestCount # NaN /\ req.requestCount[1] < 100) THEN 3
    ELSE IF req.payload = nullRef \/ \A i \in 1..Len(req.payload[1]) : req.payload[1][i] \in WhiteSpace
    THEN 4
    ELSE 5

passLines ==
    <<"AuthHandler: Authenticated.", "AuthorizationHandler: Authorized.",
      "RateLimitHandler: Within rate limit.", "ValidationHandler: Payload valid.",
      "BusinessLogicHandler: Processing request...">>

chainRejectLines ==
    <<"AuthHandler: User not authenticated.", "AuthorizationHandler: Access denied.",
      "RateLimitHandler: Rate limit exceeded.", "ValidationHandler: Invalid payload.">>

naiveLines ==
    <<"Request Rejected: Authentication failed.", "Request Rejected: Authorization failed.",
      "Request Rejected: Rate limit exceeded.", "Request Rejected: Invalid payload.",
      "Request passed all checks. Executing business logic...">>

\* C29: the business logic is reached exactly when the request passes the
\* four checks (user not null, role ADMIN, requestCount < 100, non-blank
\* payload); the chain stops at the first handler whose check fails and no
\* later handler runs; the naive handler accepts the same requests and
\* rejects at the same check.
C29_ChainMatchesNaive ==
    chLast.op = "handle"
      => LET k == firstFailing(chLast.request)
         IN  /\ Len(chainLog) = k
             /\ \A i \in 1..(k - 1) : chainLog[i] = passLines[i]
             /\ chainLog[k] = IF k = 5 THEN passLines[5] ELSE chainRejectLines[k]
             /\ naiveLog = <<naiveLines[k]>>

\* the list without the oldest registration of the observer
RECURSIVE withoutFirst(_, _)
withoutFirst(list, o) ==
    IF list = <<>> THEN <<>>
    ELSE IF Head(list) = o THEN Tail(list)
    ELSE <<Head(list)>> \o withoutFirst(Tail(list), o)

registered(list, o) == \E i \in 1..Len(list) : list[i] = o

\* a push or a daily reset stores the new steps and then updates every
\* registration once, in registration order, with the stored steps
notifiedInOrder ==
    obLast'.op \in {"newFitnessDataPushed", "dailyReset"}
      => /\ steps' = obLast'.steps
         /\ Len(obLog') = Len(observers)
         /\ \A i \in 1..Len(observers) :
                obLog'[i].observer = observers[i] /\ obLog'[i].steps = steps'
         /\ observers' = observers

\* removing an observer that is not registered changes nothing
removeUnregistered ==
    (obLast'.op = "removeObserver" /\ ~registered(observers, obLast'.observer))
      => UNCHANGED <<observers, steps, activeMinutes, calories, goalReached>>

\* between two reset() calls the alert is raised at most once, by the first
\* update of the notifier that reads steps at the goal
alertOnFirst ==
    /\ alerts' <= 1
    /\ qualified' <=> alerts' = 1
    /\ \A i \in 1..Len(obLog') :
          obLog'[i].alert <=>
             /\ obLog'[i].observer = "notifier"
             /\ obLog'[i].steps # NaN
             /\ obLog'[i].steps[1] >= 10000
             /\ ~qualified
             /\ \A j \in 1..(i - 1) : obLog'[j].observer # "notifier"

\* C30 as stated: every push and daily reset notifies each registration once,
\* in registration order, after the values are stored; an observer removed
\* with removeObserver is no longer registered, so no later push notifies
\* it; removing an unregistered observer changes nothing; the goal alert is
\* raised at most once between two resets, on the first update at the goal.
C30_RemovedNotNotified ==
    [][ /\ notifiedInOrder
        /\ obLast'.op = "removeObserver" => ~registered(observers', obLast'.observer)
        /\ removeUnregistered
        /\ alertOnFirst
      ]_vars

\* C30, amended: removeObserver takes away the oldest registration of the
\* observer and no other; an observer that was registered once is not
\* notified by later pushes, one registered more often keeps its later
\* registrations.  The other parts are as stated.
C30_RemovesOneRegistration ==
    [][ /\ notifiedInOrder
        /\ obLast'.op = "removeObserver"
              => /\ observers' = withoutFirst(observers, obLast'.observer)
                 /\ Cardinality({i \in 1..Len(observers) : observers[i] = obLast'.observer}) = 1
                      => ~registered(observers', obLast'.observer)
        /\ removeUnregistered
        /\ alertOnFirst
      ]_vars

\* an observer that was registered twice has just been removed once and is
\* still in the list, behind the observers registered before its second time
C30_Witness ==
    /\ obLast.op = "removeObserver"
    /\ registered(observers, obLast.observer)
    /\ Len(observers) = 2
    /\ observers[2] = obLast.observer
====
